---- MODULE Spec2Model ----
(***************************************************************************)
(* A model of strawberry's DataLoader (src/strawberry/dataloader.py) on a  *)
(* single asyncio event loop.                                              *)
(*                                                                         *)
(* The event loop is the FIFO queue `ready` of callbacks (call_soon        *)
(* appends, the loop runs the head).  Caller code runs in synchronous      *)
(* units of work: one callback of the loop, during which it may call       *)
(* load() and call_soon() any number of times; no other callback runs      *)
(* until the unit ends.                                                    *)
(*                                                                         *)
(* The module also models ASTBuilder (src/strawberry/ast.py), the builder  *)
(* of the simplified document, with Python's list objects kept in a heap   *)
(* so that two references to one list are one object.                      *)
(***************************************************************************)
EXTENDS Integers, Sequences, FiniteSets, TLC

\* ------------------------------------------------------------------ bounds
MaxLoads == 3        \* load() calls in one behaviour
MaxUnits == 2        \* caller units of work in one behaviour
MaxFaults == 1       \* load_fn calls that raise or return a wrong number of values
MaxCancels == 1      \* futures a caller cancels
MaxSelections == 2   \* selections in one selection set of a query

\* The keys the callers pass to load, in call order: all different (each
\* named by its position) or all the same.  The loader never inspects a key.
KeyScripts == {[i \in 1..MaxLoads |-> i], [i \in 1..MaxLoads |-> 1]}
\* max_batch_size of a loader: 0 stands for None (both are falsy at line 53)
MaxSizes == {0, 1, 2}

VARIABLES
    maxBatchSize,   \* loader.max_batch_size
    keys,           \* input: the key the i-th load call of the behaviour is given
    batch,          \* loader.batch: index into batches, 0 for None
    batches,        \* every Batch object created, in creation order
    futures,        \* every Future created by load, in creation order
    dispatchTask,   \* per batch: the state of its dispatch() coroutine
    ready,          \* the event loop's queue of ready callbacks
    cur,            \* the caller unit that is running, 0 when the loop is between callbacks
    units,          \* history: per caller unit, what had happened when it was scheduled
                    \* (kept until the unit has run)
    calls,          \* history: per load call (= future), what it did
    binfo,          \* history: per batch, who opened it and how often it was scheduled
    fetches,        \* history: every load_fn call, in call order
    resolutions,    \* history: per future, the batches whose dispatch set its result
    info,           \* ASTBuilder.info: the fragments and field nodes of the query
    heap,           \* every list object the builder created, in creation order
    fragments,      \* ASTBuilder.fragments: fragment name -> its list object
    document,       \* ASTBuilder.document: its list object, 0 before load_document
    pc,             \* how far ASTBuilder.__init__ and the reading of the result have got
    names           \* document_python_names and document_graphql_names as read

hist == <<units, calls, binfo, fetches, resolutions>>
ast == <<info, heap, fragments, document, pc, names>>
vars == <<maxBatchSize, keys, batch, batches, futures, dispatchTask, ready, cur,
          units, calls, binfo, fetches, resolutions, ast>>

\* ----------------------------------------------------------------- helpers
Range(s) == {s[i] : i \in DOMAIN s}

Min(a, b) == IF a <= b THEN a ELSE b

\* A sequence of n values returned by load_fn.  The values are opaque to the
\* loader; each is named by its position in the returned sequence.
ValueSeq(n) == [i \in 1..n |-> i]

\* keys = [task.key for task in batch.tasks]
KeysOf(tasks) == [i \in DOMAIN tasks |-> tasks[i].key]

\* ------------------------------------------------------------ Batch, Future
NewBatch == [tasks |-> <<>>, dispatched |-> FALSE]

LoaderTask(key, future) == [key |-> key, future |-> future]

\* Batch.add_task
add_task_front(b, key, future) ==
    [b EXCEPT !.tasks = <<LoaderTask(key, future)>> \o @]
add_task_lost(b, key, future) == b
add_task_twice(b, key, future) ==
    [b EXCEPT !.tasks = Append(Append(@, LoaderTask(key, future)), LoaderTask(key, future))]
add_task_dedup(b, key, future) ==
    IF \E i \in DOMAIN b.tasks : b.tasks[i].key = key
    THEN b
    ELSE [b EXCEPT !.tasks = Append(@, LoaderTask(key, future))]
add_task(b, key, future) ==
    [b EXCEPT !.tasks = Append(@, LoaderTask(key, future))]

\* Batch.__len__
BatchLen(b) == Len(b.tasks)

\* loop.create_future()
NewFuture == [state |-> "PENDING", result |-> 0]

\* -------------------------------------------------------- boundary policy
\* should_create_new_batch(loader, batch)
should_create_new_batch_early(l, b) ==
    \/ b.dispatched
    \/ (maxBatchSize[l] # 0 /\ BatchLen(b) + 1 >= maxBatchSize[l])
should_create_new_batch_gt(l, b) ==
    \/ b.dispatched
    \/ (maxBatchSize[l] # 0 /\ BatchLen(b) > maxBatchSize[l])
should_create_new_batch_nodisp(l, b) ==
    (maxBatchSize[l] # 0 /\ BatchLen(b) >= maxBatchSize[l])
should_create_new_batch(l, b) ==
    \/ b.dispatched
    \/ (maxBatchSize[l] # 0 /\ BatchLen(b) >= maxBatchSize[l])

\* `if loader.batch and not should_create_new_batch(...)`: a Batch defines
\* __len__ and no __bool__, so `loader.batch` is truthy when it is not None
\* and holds at least one task.
ReusesBatch(l) ==
    /\ batch[l] # 0
    /\ BatchLen(batches[batch[l]]) > 0
    /\ ~should_create_new_batch(l, batches[batch[l]])

\* dispatch(loader, batch): loop.call_soon(create_task, dispatch())
dispatch_twice(rdy, b) ==
    Append(Append(rdy, [kind |-> "create_task", id |-> b]), [kind |-> "create_task", id |-> b])
dispatch_front(rdy, b) == <<[kind |-> "create_task", id |-> b]>> \o rdy
dispatch(rdy, b) == Append(rdy, [kind |-> "create_task", id |-> b])

\* line 65: loader.batch = Batch().  The assignment sets the attribute of the
\* instance; the class attribute (line 33) stays None and is what an instance
\* that has not opened a batch yet reads.
set_batch_shared(bt, l, b) == [x \in DOMAIN bt |-> b]
set_batch(bt, l, b) == [bt EXCEPT ![l] = b]

\* ------------------------------------------------------- the caller's unit
\* DataLoader.load(key), with get_current_batch and dispatch
Load(l) ==
    /\ cur # 0
    /\ Len(calls) < MaxLoads
    /\ LET f == Len(futures) + 1
           k == keys[Len(calls) + 1]
           reuse == ReusesBatch(l)
           b == IF reuse THEN batch[l] ELSE Len(batches) + 1
           saw == batch[l] # 0 /\ batches[batch[l]].dispatched
           stale == reuse /\ batches[batch[l]].dispatched
       IN /\ futures' = Append(futures, NewFuture)
          /\ batches' = IF reuse
                        THEN [batches EXCEPT ![b] = add_task(@, k, f)]
                        ELSE Append(batches, add_task(NewBatch, k, f))
          /\ batch' = IF reuse THEN batch ELSE set_batch(batch, l, b)
          /\ ready' = IF reuse THEN ready ELSE dispatch(ready, b)
          /\ dispatchTask' = IF reuse THEN dispatchTask ELSE Append(dispatchTask, "scheduled")
          /\ binfo' = IF reuse THEN binfo
                      ELSE Append(binfo, [loader |-> l, unit |-> cur,
                                          scheduled |-> Len(dispatch(ready, b)) - Len(ready)])
          /\ calls' = Append(calls, [loader |-> l, key |-> k, unit |-> cur, batch |-> b,
                                     opened |-> ~reuse, sawDispatched |-> saw, stale |-> stale,
                                     afterOpen |-> b \in units[cur].afterOpen,
                                     afterTask |-> b \in units[cur].afterTask])
          /\ resolutions' = Append(resolutions, <<>>)
    /\ UNCHANGED <<ast, maxBatchSize, keys, cur, units, fetches>>

\* loop.call_soon(callback) for a callback of caller code: a later unit of work
Scheduled(rdy) == Append(rdy, [kind |-> "unit", id |-> Len(units) + 1])

\* what has happened to the batches when a unit is scheduled
NewUnit ==
    [afterOpen |-> DOMAIN batches,
     afterTask |-> {b \in DOMAIN batches : dispatchTask[b] # "scheduled"}]

\* the running unit schedules a callback
CallSoon ==
    /\ cur # 0
    /\ Len(units) < MaxUnits
    /\ ready' = Scheduled(ready)
    /\ units' = Append(units, NewUnit)
    /\ UNCHANGED <<ast, maxBatchSize, keys, batch, batches, futures, dispatchTask, cur,
                   calls, binfo, fetches, resolutions>>

\* the running unit cancels a future that load returned to it (line 47):
\* Future.cancel() on a pending future; on a future that is done it does nothing
Cancel(f) ==
    /\ cur # 0
    /\ futures[f].state = "PENDING"
    /\ Cardinality({g \in DOMAIN futures : futures[g].state = "CANCELLED"}) < MaxCancels
    /\ futures' = [futures EXCEPT ![f].state = "CANCELLED"]
    /\ UNCHANGED <<ast, maxBatchSize, keys, batch, batches, dispatchTask, ready, cur>>
    /\ UNCHANGED hist

\* the unit of work returns to the event loop
EndUnit ==
    /\ cur # 0
    /\ cur' = 0
    /\ units' = [units EXCEPT ![cur] = [afterOpen |-> {}, afterTask |-> {}]]
    /\ UNCHANGED <<ast, maxBatchSize, keys, batch, batches, futures, dispatchTask, ready>>
    /\ UNCHANGED <<calls, binfo, fetches, resolutions>>

\* ------------------------------------------------------------ the event loop
HeadIs(kind) == cur = 0 /\ ready # <<>> /\ Head(ready).kind = kind

\* the loop runs a caller's callback
RunUnit ==
    /\ HeadIs("unit")
    /\ cur' = Head(ready).id
    /\ ready' = Tail(ready)
    /\ UNCHANGED <<ast, maxBatchSize, keys, batch, batches, futures, dispatchTask>>
    /\ UNCHANGED hist

\* create_task(coro): the new task's first step is itself scheduled with call_soon
create_task_lost(rdy, b) == rdy
create_task(rdy, b) == Append(rdy, [kind |-> "step", id |-> b])

\* the loop runs the callback scheduled by dispatch()
RunCreateTask ==
    /\ HeadIs("create_task")
    /\ LET b == Head(ready).id
       IN /\ ready' = create_task(Tail(ready), b)
          /\ dispatchTask' = [dispatchTask EXCEPT ![b] = "created"]
    /\ UNCHANGED <<ast, maxBatchSize, keys, batch, batches, futures, cur>>
    /\ UNCHANGED hist


\* ---------------------------------------------------------- dispatch_batch
\* zip(batch.tasks, values): pairs up to the shorter of the two
zip_reversed(tasks, values) ==
    [i \in 1..Min(Len(tasks), Len(values)) |->
        [task |-> tasks[i], value |-> values[Min(Len(tasks), Len(values)) + 1 - i]]]
zip_longest(tasks, values) ==
    [i \in 1..Len(tasks) |->
        [task |-> tasks[i], value |-> IF i <= Len(values) THEN values[i] ELSE 0]]
zip(tasks, values) ==
    [i \in 1..Min(Len(tasks), Len(values)) |-> [task |-> tasks[i], value |-> values[i]]]

\* for task, value in zip(...): task.future.set_result(value)
\* Future.set_result raises InvalidStateError on a future that is not
\* pending; the exception leaves the loop and ends the coroutine.
RECURSIVE set_results(_, _, _, _)
set_results(pairs, i, futs, log) ==
    IF i > Len(pairs) THEN [futs |-> futs, ok |-> TRUE, log |-> log]
    ELSE LET f == pairs[i].task.future
         IN IF futs[f].state # "PENDING"
            THEN [futs |-> futs, ok |-> FALSE, log |-> log]
            ELSE set_results(pairs, i + 1,
                             [futs EXCEPT ![f] = [state |-> "FINISHED", result |-> pairs[i].value]],
                             Append(log, [future |-> f, value |-> pairs[i].value]))

\* line 80: batch.dispatched = True
mark_dispatched_not(b) == b
mark_dispatched(b) == [b EXCEPT !.dispatched = TRUE]

\* lines 80-87 up to the call: mark the batch, collect the keys, call load_fn
Begin(b) ==
    /\ batches' = [batches EXCEPT ![b] = mark_dispatched(@)]
    /\ UNCHANGED <<ast, maxBatchSize, keys, batch, cur, calls, binfo>>

\* cancelled: the futures of the batch that were no longer pending at the call
Called_skips_cancelled(b) ==
    Append(fetches, [batch |-> b,
                     keys |-> KeysOf(SelectSeq(batches[b].tasks,
                                               LAMBDA t : futures[t.future].state = "PENDING")),
                     outcome |-> "pending", values |-> <<>>,
                     cancelled |-> {t.future : t \in {x \in Range(batches[b].tasks) :
                                                        futures[x.future].state # "PENDING"}}])
Called(b) ==
    Append(fetches, [batch |-> b, keys |-> KeysOf(batches[b].tasks),
                     outcome |-> "pending", values |-> <<>>,
                     cancelled |-> {t.future : t \in {x \in Range(batches[b].tasks) :
                                                        futures[x.future].state # "PENDING"}}])

FetchOf(fs, b) == CHOOSE i \in DOMAIN fs : fs[i].batch = b /\ fs[i].outcome = "pending"

\* lines 88-91: load_fn's awaitable has produced `vals`.
\* set_result schedules the future's done callbacks with call_soon: when a
\* caller awaits one of the futures resolved here (waited), its continuation
\* is a later unit of work.
Returned(b, vals, fs, waited) ==
    LET d == set_results(zip(batches[b].tasks, vals), 1, futures, <<>>)
        wakes == waited /\ d.log # <<>>
    IN /\ futures' = d.futs
       /\ ready' = IF wakes THEN Scheduled(Tail(ready)) ELSE Tail(ready)
       /\ units' = IF wakes THEN Append(units, NewUnit) ELSE units
       /\ dispatchTask' = [dispatchTask EXCEPT ![b] = IF d.ok THEN "done" ELSE "failed"]
       /\ fetches' = [fs EXCEPT ![FetchOf(fs, b)] =
                          [@ EXCEPT !.outcome = "returned", !.values = vals]]
       /\ resolutions' = [f \in DOMAIN resolutions |->
                            resolutions[f] \o [i \in DOMAIN SelectSeq(d.log, LAMBDA e : e.future = f) |-> b]]

\* load_fn raised: the exception leaves dispatch_batch and ends the task
Raised_stops_loop(b, fs) ==
    /\ dispatchTask' = [dispatchTask EXCEPT ![b] = "failed"]
    /\ fetches' = [fs EXCEPT ![FetchOf(fs, b)].outcome = "raised"]
    /\ ready' = <<>>
    /\ UNCHANGED <<futures, resolutions, units>>
Raised(b, fs) ==
    /\ dispatchTask' = [dispatchTask EXCEPT ![b] = "failed"]
    /\ fetches' = [fs EXCEPT ![FetchOf(fs, b)].outcome = "raised"]
    /\ ready' = Tail(ready)
    /\ UNCHANGED <<futures, resolutions, units>>

\* a load_fn call that raised, or returned a sequence of another length than its keys
Faulty(ft) ==
    \/ ft.outcome = "raised"
    \/ ft.outcome = "returned" /\ Len(ft.values) # Len(ft.keys)

MayFault == Cardinality({i \in DOMAIN fetches : Faulty(fetches[i])}) < MaxFaults

\* whether a caller awaits a future that a dispatch resolves: its choice, as
\* long as the behaviour has a unit of work left for its continuation
Waited == IF Len(units) < MaxUnits THEN BOOLEAN ELSE {FALSE}

\* the value sequences load_fn may return for n keys; off: the length differences allowed
Returnable(n, off) ==
    {ValueSeq(n + o) : o \in {x \in off : n + x >= 0 /\ (x # 0 => MayFault)}}

\* the task's first step; load_fn suspends (it awaits I/O)
StepSuspends ==
    /\ HeadIs("step")
    /\ LET b == Head(ready).id
       IN /\ Begin(b)
          /\ fetches' = Called(b)
          /\ dispatchTask' = [dispatchTask EXCEPT ![b] = "awaiting"]
    /\ ready' = Tail(ready)
    /\ UNCHANGED <<futures, resolutions, units>>

\* the task's first step; load_fn returns without suspending
StepReturns(off) ==
    /\ HeadIs("step")
    /\ LET b == Head(ready).id
       IN /\ Begin(b)
          /\ \E vals \in Returnable(BatchLen(batches[b]), off), waited \in Waited :
                Returned(b, vals, Called(b), waited)

\* the task's first step; load_fn raises without suspending
StepRaises ==
    /\ HeadIs("step")
    /\ MayFault
    /\ LET b == Head(ready).id
       IN /\ Begin(b)
          /\ Raised(b, Called(b))

\* what load_fn awaits completes: the task's wakeup is scheduled with call_soon
FetchCompletes(b) ==
    /\ cur = 0
    /\ dispatchTask[b] = "awaiting"
    /\ dispatchTask' = [dispatchTask EXCEPT ![b] = "waking"]
    /\ ready' = Append(ready, [kind |-> "wakeup", id |-> b])
    /\ UNCHANGED <<ast, maxBatchSize, keys, batch, batches, futures, cur>>
    /\ UNCHANGED hist

Resume == UNCHANGED <<ast, maxBatchSize, keys, batch, batches, cur, calls, binfo>>

\* the task resumes; load_fn returns
WakeupReturns(off) ==
    /\ HeadIs("wakeup")
    /\ LET b == Head(ready).id
       IN /\ Resume
          /\ \E vals \in Returnable(BatchLen(batches[b]), off), waited \in Waited :
                Returned(b, vals, fetches, waited)

\* the task resumes; load_fn raises
WakeupRaises ==
    /\ HeadIs("wakeup")
    /\ MayFault
    /\ LET b == Head(ready).id
       IN /\ Resume
          /\ Raised(b, fetches)

\* ------------------------------------------------------------ specification
\* no ASTBuilder has been constructed
NoBuilder ==
    /\ info = [fragments |-> <<>>, field_nodes |-> <<>>]
    /\ heap = <<>>
    /\ fragments = <<>>
    /\ document = 0
    /\ pc = "none"
    /\ names = <<>>

InitWith(ls) ==
    /\ NoBuilder
    /\ maxBatchSize \in [ls -> MaxSizes]
    /\ keys \in KeyScripts
    /\ batch = [l \in ls |-> 0]
    /\ batches = <<>>
    /\ futures = <<>>
    /\ dispatchTask = <<>>
    /\ ready = <<>>
    /\ cur = 1
    /\ units = <<[afterOpen |-> {}, afterTask |-> {}]>>
    /\ calls = <<>>
    /\ binfo = <<>>
    /\ fetches = <<>>
    /\ resolutions = <<>>

\* one DataLoader, constructed with any max_batch_size
Init == InitWith({"A"})

AnyLength == {-1, 0, 1}
SameLength == {0}

Next ==
    \/ \E l \in DOMAIN maxBatchSize : Load(l)
    \/ CallSoon
    \/ EndUnit
    \/ RunUnit
    \/ RunCreateTask
    \/ StepSuspends
    \/ StepReturns(AnyLength)
    \/ StepRaises
    \/ \E b \in DOMAIN batches : FetchCompletes(b)
    \/ WakeupReturns(AnyLength)
    \/ WakeupRaises

Spec == Init /\ [][Next]_vars

\* two DataLoader instances on the same event loop, each with its own
\* load_fn: A without max_batch_size, B without or with max_batch_size 1;
\* every load is given a key of its own
InitTwo ==
    /\ InitWith({"A", "B"})
    /\ maxBatchSize["A"] = 0
    /\ maxBatchSize["B"] \in {0, 1}
    /\ keys = [i \in 1..MaxLoads |-> i]

TwoLoaders == InitTwo /\ [][Next]_vars

\* load_fn always returns as many values as it was given keys, and callers
\* only await the futures
NextGood ==
    \/ \E l \in DOMAIN maxBatchSize : Load(l)
    \/ CallSoon
    \/ EndUnit
    \/ RunUnit
    \/ RunCreateTask
    \/ StepSuspends
    \/ StepReturns(SameLength)
    \/ \E b \in DOMAIN batches : FetchCompletes(b)
    \/ WakeupReturns(SameLength)

\* what the event loop does on its own: it runs the next ready callback, and
\* what load_fn awaits completes
Loop ==
    \/ RunUnit
    \/ RunCreateTask
    \/ StepSuspends
    \/ StepReturns(SameLength)
    \/ \E b \in DOMAIN batches : FetchCompletes(b)
    \/ WakeupReturns(SameLength)

\* every unit of work returns, the loop keeps running callbacks, and load_fn
\* eventually returns
FairSpec == Init /\ [][NextGood]_vars /\ WF_vars(EndUnit) /\ WF_vars(Loop)

\* load_fn always returns as many values as it was given keys, and callers
\* may cancel the futures they hold
NextCancel ==
    \/ NextGood
    \/ \E f \in DOMAIN futures : Cancel(f)

Cancelling == Init /\ [][NextCancel]_vars

\* ============================================================ ASTBuilder
\* The names of the fields of the queries, and camel_to_snake on them
FieldNames == {"ok", "objectB"}

camel_to_snake(name) ==
    CASE name = "ok" -> "ok"
      [] name = "objectB" -> "object_b"

FragmentNames == {"AliasA"}

\* graphql's selection nodes: a FieldNode has no selection_set (here: no
\* selections) or one with at least one selection
FieldNode(name, selections) == [kind |-> "field", name |-> name, selections |-> selections]
FragmentSpreadNode(name) == [kind |-> "fragment_spread", name |-> name, selections |-> <<>>]

SeqsUpTo(S, n) == UNION {[1..k -> S] : k \in 1..n}

\* the queries the builder is given: one fragment of leaf fields; one root
\* field whose selections are leaf fields, spreads of the fragment and fields
\* that select leaf fields and spreads of the fragment
LeafFields == {FieldNode(n, <<>>) : n \in FieldNames}
InnerSelections == LeafFields \cup {FragmentSpreadNode(f) : f \in FragmentNames}
OuterSelections ==
    InnerSelections \cup
    {FieldNode(n, sel) : n \in FieldNames, sel \in SeqsUpTo(InnerSelections, MaxSelections)}
Infos ==
    {[fragments |-> <<[name |-> "AliasA", selections |-> fsel]>>,
      field_nodes |-> <<FieldNode("ok", sel)>>] :
        fsel \in SeqsUpTo(LeafFields, MaxSelections),
        sel \in SeqsUpTo(OuterSelections, MaxSelections)}

\* Node(python_name, graphql_name) as parse_field builds it
Node(name) == [python_name |-> camel_to_snake(name), graphql_name |-> name]

\* an item of a list is a Node or a reference to a list object
Ref(id) == [ref |-> id]
IsList(v) == "ref" \in DOMAIN v

\* ASTBuilder.parse_fragment_spread: the fragment's own list object
parse_fragment_spread(node, frs, h) == [val |-> Ref(frs[node.name]), heap |-> h]

RECURSIVE parse_leaf_node(_, _, _)
RECURSIVE parse_nodes(_, _, _, _, _)
RECURSIVE parse_selections(_, _, _, _, _)

\* the list branch of parse_leaf_node (lines 113-118), and the list
\* comprehensions of parse_inline_fragment: a new list of the results
parse_nodes(list, i, id, frs, h) ==
    IF i > Len(list) THEN [val |-> Ref(id), heap |-> h]
    ELSE LET r == parse_leaf_node(list[i], frs, h)
         IN parse_nodes(list, i + 1, id, frs, [r.heap EXCEPT ![id] = Append(@, r.val)])

parse_list(list, frs, h) == parse_nodes(list, 1, Len(h) + 1, frs, Append(h, <<>>))

\* ASTBuilder.parse_inline_fragment
parse_inline_fragment(node, frs, h) == parse_list(node.selections, frs, h)

\* the loop of parse_field over the selections (lines 170-181); nodes is the
\* list object the local variable `nodes` refers to
parse_selections(sels, i, nodes, frs, h) ==
    IF i > Len(sels) THEN [nodes |-> nodes, heap |-> h]
    ELSE LET r == parse_leaf_node(sels[i], frs, h)
         IN IF sels[i].kind = "fragment_spread"
            THEN \* nodes = result
                 parse_selections(sels, i + 1, r.val.ref, frs, r.heap)
            ELSE IF IsList(r.val)
            THEN \* nodes.extend(result)
                 parse_selections(sels, i + 1, nodes, frs,
                                  [r.heap EXCEPT ![nodes] = @ \o r.heap[r.val.ref]])
            ELSE \* nodes.append(result)
                 parse_selections(sels, i + 1, nodes, frs,
                                  [r.heap EXCEPT ![nodes] = Append(@, r.val)])

\* ASTBuilder.parse_field
parse_field(node, frs, h) ==
    IF node.selections = <<>>
    THEN [val |-> Node(node.name), heap |-> h]
    ELSE LET r == parse_selections(node.selections, 1, Len(h) + 1, frs, Append(h, <<>>))
         IN [val |-> Ref(Len(r.heap) + 1),
             heap |-> Append(r.heap, <<Node(node.name), Ref(r.nodes)>>)]

\* ASTBuilder.parse_leaf_node on one node
parse_leaf_node(node, frs, h) ==
    IF node.kind = "inline_fragment" THEN parse_inline_fragment(node, frs, h)
    ELSE IF node.kind = "fragment_spread" THEN parse_fragment_spread(node, frs, h)
    ELSE IF node.kind = "field" THEN parse_field(node, frs, h)
    ELSE [val |-> Ref(Len(h) + 1), heap |-> Append(h, <<>>)]

\* the loop of load_fragments over info.fragments.items()
RECURSIVE load_each_fragment(_, _, _, _)
load_each_fragment(frags, i, frs, h) ==
    IF i > Len(frags) THEN [fragments |-> frs, heap |-> h]
    ELSE LET r == parse_list(frags[i].selections, frs, h)
         IN load_each_fragment(frags, i + 1,
                               [n \in DOMAIN frs \cup {frags[i].name} |->
                                   IF n = frags[i].name THEN r.val.ref ELSE frs[n]],
                               r.heap)

\* the list objects a list refers to
RefsOf(h, id) == {h[id][i].ref : i \in {j \in DOMAIN h[id] : IsList(h[id][j])}}

\* the list objects reachable from those of S
RECURSIVE Reachable(_, _)
Reachable(h, S) ==
    LET T == S \cup UNION {RefsOf(h, id) : id \in S}
    IN IF T = S THEN S ELSE Reachable(h, T)

\* a list that contains itself, directly or through other lists
Cyclic(h, id) == \E r \in Reachable(h, {id}) : r \in Reachable(h, RefsOf(h, r))

\* recurisve_extract(nodes, attr) on a structure without cycles: the labels
\* of the nodes, nested as the lists are
RECURSIVE recurisve_extract(_, _, _)
recurisve_extract(h, id, attr) ==
    [i \in DOMAIN h[id] |->
        IF IsList(h[id][i])
        THEN [list |-> recurisve_extract(h, h[id][i].ref, attr)]
        ELSE [label |-> h[id][i][attr]]]

\* document_python_names and document_graphql_names; on a list that contains
\* itself the recursion of recurisve_extract never ends (RecursionError)
LabelMaps(h, doc) ==
    IF Cyclic(h, doc)
    THEN [error |-> "RecursionError", python_names |-> <<>>, graphql_names |-> <<>>]
    ELSE [error |-> "",
          python_names |-> recurisve_extract(h, doc, "python_name"),
          graphql_names |-> recurisve_extract(h, doc, "graphql_name")]

\* the loader part of the state when only a builder runs
NoLoader ==
    /\ maxBatchSize = <<>>
    /\ keys = <<>>
    /\ batch = <<>>
    /\ batches = <<>>
    /\ futures = <<>>
    /\ dispatchTask = <<>>
    /\ ready = <<>>
    /\ cur = 0
    /\ units = <<>>
    /\ calls = <<>>
    /\ binfo = <<>>
    /\ fetches = <<>>
    /\ resolutions = <<>>

loader == <<maxBatchSize, keys, batch, batches, futures, dispatchTask, ready, cur,
            units, calls, binfo, fetches, resolutions>>

\* ASTBuilder.__init__ up to load_fragments
ASTInit ==
    /\ NoLoader
    /\ info \in Infos
    /\ heap = <<>>
    /\ fragments = <<>>
    /\ document = 0
    /\ pc = "new"
    /\ names = <<>>

\* ASTBuilder.load_fragments
LoadFragments ==
    /\ pc = "new"
    /\ LET r == load_each_fragment(info.fragments, 1, fragments, heap)
       IN /\ fragments' = r.fragments
          /\ heap' = r.heap
    /\ pc' = "fragments"
    /\ UNCHANGED <<loader, info, document, names>>

\* ASTBuilder.load_document
LoadDocument ==
    /\ pc = "fragments"
    /\ LET r == parse_list(info.field_nodes, fragments, heap)
       IN /\ document' = r.val.ref
          /\ heap' = r.heap
    /\ pc' = "document"
    /\ UNCHANGED <<loader, info, fragments, names>>

\* ast_from_info returns builder.result; the caller reads the two label maps
ReadNames ==
    /\ pc = "document"
    /\ names' = LabelMaps(heap, document)
    /\ pc' = "done"
    /\ UNCHANGED <<loader, info, heap, fragments, document>>

ASTNext ==
    \/ LoadFragments
    \/ LoadDocument
    \/ ReadNames

ASTSpec == ASTInit /\ [][ASTNext]_vars

\* ------------------------------------------------------- reading the history
RECURSIVE Ascending(_)
Ascending(S) ==
    IF S = {} THEN <<>>
    ELSE LET m == CHOOSE x \in S : \A y \in S : x <= y
         IN <<m>> \o Ascending(S \ {m})

\* the load calls unit u made on loader l, in call order
CallsIn(u, l) == Ascending({f \in DOMAIN calls : calls[f].unit = u /\ calls[f].loader = l})

\* the load calls that joined batch b, in call order
Joined(b) == Ascending({f \in DOMAIN calls : calls[f].batch = b})

\* the batches unit u opened for loader l, in creation order
OpenedIn(u, l) == Ascending({b \in DOMAIN binfo : binfo[b].unit = u /\ binfo[b].loader = l})

FuturesOf(b) == [i \in DOMAIN batches[b].tasks |-> batches[b].tasks[i].future]

KeysGiven(fs) == [i \in DOMAIN fs |-> calls[fs[i]].key]

FetchesOf(b) == {i \in DOMAIN fetches : fetches[i].batch = b}

Prefix(s, t) == Len(s) <= Len(t) /\ \A i \in DOMAIN s : s[i] = t[i]

\* the loop has nothing left to run
Quiescent == cur = 0 /\ ready = <<>>

\* unit u has begun to run
Started(u) == \A i \in DOMAIN ready : ready[i] # [kind |-> "unit", id |-> u]

\* ---------------------------------------------------------------------- C1
\* The loads one unit of work makes on a loader without max_batch_size, the
\* first of which opened batch b.
Coalesced(b) == CallsIn(binfo[b].unit, binfo[b].loader)

\* C1 as stated: a loader without max_batch_size whose current batch is absent
\* or dispatched puts the N loads of one unit of work into one batch, and
\* load_fn is called once for them with exactly those N keys in call order.
C1_ExactlyThoseKeys ==
    \A b \in DOMAIN batches : maxBatchSize[binfo[b].loader] = 0 =>
        /\ \A f \in Range(Coalesced(b)) : calls[f].batch = b
        /\ Cardinality(FetchesOf(b)) <= 1
        /\ \A i \in FetchesOf(b) : fetches[i].keys = KeysGiven(Coalesced(b))

\* C1 as amended: the N loads all join the one batch the first of them
\* opened, as its first N tasks in call order; load_fn is called exactly once
\* for that batch (never twice, and once when the loop has run out of
\* callbacks) and the keys it is given start with those N keys in call order.
\* Loads of other units of work that run before the dispatch follow them.
C1_Coalescing ==
    \A b \in DOMAIN batches : maxBatchSize[binfo[b].loader] = 0 =>
        /\ \A f \in Range(Coalesced(b)) : calls[f].batch = b
        /\ Prefix(Coalesced(b), FuturesOf(b))
        /\ Cardinality(FetchesOf(b)) <= 1
        /\ Quiescent => Cardinality(FetchesOf(b)) = 1
        /\ \A i \in FetchesOf(b) : Prefix(KeysGiven(Coalesced(b)), fetches[i].keys)

\* two loads of one unit were fetched in one call
C1_Witness ==
    \E i \in DOMAIN fetches :
        /\ maxBatchSize[binfo[fetches[i].batch].loader] = 0
        /\ Len(Coalesced(fetches[i].batch)) >= 2
        /\ keys[1] # keys[2]

\* ---------------------------------------------------------------------- C2
\* C2: when load_fn returns as many values as it was given keys, the future
\* of the i-th load call that joined the batch is resolved with the i-th
\* value returned for that batch.
C2_PositionalDelivery ==
    \A i \in DOMAIN fetches :
        (fetches[i].outcome = "returned" /\ Len(fetches[i].values) = Len(fetches[i].keys)) =>
            LET joined == Joined(fetches[i].batch)
            IN /\ Len(joined) = Len(fetches[i].values)
               /\ \A j \in DOMAIN joined :
                    /\ futures[joined[j]].state = "FINISHED"
                    /\ futures[joined[j]].result = fetches[i].values[j]

C2_Witness ==
    \E i \in DOMAIN fetches :
        /\ fetches[i].outcome = "returned"
        /\ Len(fetches[i].values) = 3
        /\ Len(fetches[i].keys) = 3
        /\ futures[Joined(fetches[i].batch)[3]].result = 3

\* ---------------------------------------------------------------------- C3
\* C3: with a positive max_batch_size M, no batch ever holds more than M
\* tasks and no load_fn call is given more than M keys.
C3_BatchSizeBound ==
    /\ \A b \in DOMAIN batches :
          maxBatchSize[binfo[b].loader] > 0 => BatchLen(batches[b]) <= maxBatchSize[binfo[b].loader]
    /\ \A i \in DOMAIN fetches :
          maxBatchSize[binfo[fetches[i].batch].loader] > 0 =>
              Len(fetches[i].keys) <= maxBatchSize[binfo[fetches[i].batch].loader]

\* a full batch of two was replaced and fetched
C3_Witness ==
    \E i \in DOMAIN fetches : \E f \in DOMAIN calls :
        /\ maxBatchSize[binfo[fetches[i].batch].loader] = 2
        /\ Len(fetches[i].keys) = 2
        /\ calls[f].opened /\ calls[f].batch > fetches[i].batch /\ ~calls[f].sawDispatched


\* ---------------------------------------------------------------------- C4
\* the unit's first load on the loader found its current batch absent or dispatched
FreshStart(u, l) ==
    /\ CallsIn(u, l) # <<>>
    /\ LET f == CallsIn(u, l)[1]
       IN calls[f].opened /\ (calls[f].sawDispatched \/ \A g \in 1..(f - 1) : calls[g].loader # l)

\* C4: with max_batch_size M > 0 and the current batch absent or dispatched,
\* the N loads of one unit of work are split into ceil(N/M) batches, the
\* consecutive chunks of M calls in call order, and load_fn is called
\* separately for each batch (never twice, and once when the loop has run out
\* of callbacks), its keys starting with the keys of the batch's chunk.
C4_SplitIntoChunks ==
    \A u \in DOMAIN units : \A l \in DOMAIN maxBatchSize :
        (maxBatchSize[l] > 0 /\ FreshStart(u, l)) =>
            LET M == maxBatchSize[l]
                mine == CallsIn(u, l)
                N == Len(mine)
                opened == OpenedIn(u, l)
            IN /\ Len(opened) = (N + M - 1) \div M
               /\ \A i \in 1..N :
                    /\ calls[mine[i]].batch = opened[((i - 1) \div M) + 1]
                    /\ FuturesOf(calls[mine[i]].batch)[((i - 1) % M) + 1] = mine[i]
               /\ \A j \in DOMAIN opened :
                    /\ BatchLen(batches[opened[j]]) <= M
                    /\ Cardinality(FetchesOf(opened[j])) <= 1
                    /\ Quiescent => Cardinality(FetchesOf(opened[j])) = 1
                    /\ \A i \in FetchesOf(opened[j]) :
                         Prefix(KeysGiven(SubSeq(mine, (j - 1) * M + 1, Min(j * M, N))),
                                fetches[i].keys)

\* M = 2 and three loads in one unit: load_fn([1, 2]) and load_fn([3])
C4_Witness ==
    \E u \in DOMAIN units : \E l \in DOMAIN maxBatchSize :
        /\ maxBatchSize[l] = 2
        /\ FreshStart(u, l)
        /\ Len(CallsIn(u, l)) = 3
        /\ \E i, j \in DOMAIN fetches :
             /\ fetches[i].batch = OpenedIn(u, l)[1] /\ fetches[i].keys = <<1, 2>>
             /\ fetches[j].batch = OpenedIn(u, l)[2] /\ fetches[j].keys = <<3>>

\* ---------------------------------------------------------------------- C5
\* the dispatch callbacks of batch b still in the loop's queue
PendingDispatches(b) ==
    Cardinality({i \in DOMAIN ready :
                    ready[i].id = b /\ ready[i].kind \in {"create_task", "step"}})

DispatchedOnce ==
    \A b \in DOMAIN batches :
        /\ binfo[b].scheduled = 1
        /\ PendingDispatches(b) + Cardinality(FetchesOf(b)) = 1
        /\ batches[b].dispatched <=> Cardinality(FetchesOf(b)) = 1
        /\ Quiescent => batches[b].dispatched

StaysDispatched ==
    \A b \in DOMAIN batches : batches[b].dispatched => batches'[b].dispatched

\* C5: every batch has exactly one dispatch scheduled, at its creation; its
\* dispatched flag is set once and never cleared; load_fn is called for it
\* exactly once: never twice, and once when the loop has run out of callbacks.
C5_DispatchExactlyOnce == []DispatchedOnce /\ [][StaysDispatched]_vars

\* two batches of one loader, each dispatched with its own load_fn call
C5_Witness ==
    /\ Quiescent
    /\ Len(batches) >= 2
    /\ \A b \in DOMAIN batches : batches[b].dispatched /\ Cardinality(FetchesOf(b)) = 1

\* ---------------------------------------------------------------------- C6
\* C6: no load joins a batch whose dispatched flag is set; the tasks of a
\* batch are those load_fn was called with, also while load_fn is awaited and
\* afterwards; a load that finds the current batch dispatched opens a new one.
C6_DispatchedNeverReused ==
    /\ \A f \in DOMAIN calls :
          /\ ~calls[f].stale
          /\ calls[f].sawDispatched => calls[f].opened
    /\ \A i \in DOMAIN fetches :
          /\ KeysOf(batches[fetches[i].batch].tasks) = fetches[i].keys
          /\ FuturesOf(fetches[i].batch) = Joined(fetches[i].batch)

\* a load made while load_fn was awaited for the loader's current batch
C6_Witness ==
    \E f \in DOMAIN calls :
        /\ calls[f].sawDispatched
        /\ calls[f].batch > 1
        /\ dispatchTask[calls[f].batch - 1] = "awaiting"
        /\ binfo[calls[f].batch - 1].loader = calls[f].loader

\* ---------------------------------------------------------------------- C7
\* C7: the batches of one loader are dispatched in the order they were
\* opened: load_fn calls of one loader are in batch creation order, and a
\* dispatched batch has no undispatched older batch of the same loader.
C7_FifoAcrossBatches ==
    /\ \A i, j \in DOMAIN fetches :
          (i < j /\ binfo[fetches[i].batch].loader = binfo[fetches[j].batch].loader)
              => fetches[i].batch < fetches[j].batch
    /\ \A b1, b2 \in DOMAIN batches :
          (b1 < b2 /\ binfo[b1].loader = binfo[b2].loader /\ batches[b2].dispatched)
              => batches[b1].dispatched

\* two batches opened in one unit, both dispatched
C7_Witness ==
    \E i, j \in DOMAIN fetches :
        /\ i < j
        /\ binfo[fetches[i].batch].loader = binfo[fetches[j].batch].loader
        /\ binfo[fetches[i].batch].unit = binfo[fetches[j].batch].unit

\* ---------------------------------------------------------------------- C8
\* the dispatch of a batch does not run inside the unit that opened it
NotInOpeningUnit ==
    \A b \in DOMAIN batches :
        (cur # 0 /\ binfo[b].unit = cur) => (~batches[b].dispatched /\ FetchesOf(b) = {})

\* C8 as stated: the dispatch does not run inside the unit that opened the
\* batch, and it runs before any callback scheduled after the opening load,
\* so that no load of such a callback joins the batch.
C8_BeforeLaterCallbacks ==
    /\ NotInOpeningUnit
    /\ \A u \in DOMAIN units : \A b \in units[u].afterOpen :
          Started(u) => batches[b].dispatched
    /\ \A f \in DOMAIN calls : ~calls[f].afterOpen

\* C8 as amended: the dispatch does not run inside the unit that opened the
\* batch; the callback scheduled at the opening only creates the dispatch
\* task, whose first step is queued behind what is then ready.  The dispatch
\* runs before any callback scheduled after that task was created, and no
\* load of such a callback joins the batch.
C8_DeferredDispatch ==
    /\ NotInOpeningUnit
    /\ \A u \in DOMAIN units : \A b \in units[u].afterTask :
          Started(u) => batches[b].dispatched
    /\ \A f \in DOMAIN calls : ~calls[f].afterTask

\* a unit scheduled after a batch's dispatch task was created loads a key
C8_Witness ==
    /\ cur # 0
    /\ units[cur].afterTask # {}
    /\ \E f \in DOMAIN calls : calls[f].unit = cur /\ calls[f].batch \notin units[cur].afterTask

\* ---------------------------------------------------------------------- C9
ResolvedAtMostOnce ==
    \A f \in DOMAIN futures :
        /\ Len(resolutions[f]) <= 1
        /\ futures[f].state = "FINISHED" <=> resolutions[f] # <<>>
        /\ \A i \in DOMAIN resolutions[f] : resolutions[f][i] = calls[f].batch

\* every future created so far is resolved
AllResolved == \A f \in DOMAIN futures : futures[f].state = "FINISHED"

\* a resolved future keeps its result
StaysResolved ==
    \A f \in DOMAIN futures : futures[f].state = "FINISHED" => futures'[f] = futures[f]

\* C9: when load_fn always returns a sequence of the requested length and
\* the loop is fair, the future of every load call is eventually resolved
\* (futures are never removed, so each is resolved by the next time all are),
\* once, by the dispatch of the batch it joined, and keeps its result.
C9_EventuallyResolvedOnce ==
    /\ []ResolvedAtMostOnce
    /\ []<>AllResolved
    /\ [][StaysResolved]_vars

\* the future of a task in a full batch that was replaced before its dispatch is resolved
C9_Witness ==
    \E f \in DOMAIN futures : \E b \in DOMAIN batches :
        /\ futures[f].state = "FINISHED"
        /\ b > calls[f].batch
        /\ binfo[b].loader = calls[f].loader
        /\ binfo[b].unit = binfo[calls[f].batch].unit

\* --------------------------------------------------------------------- C10
\* C10: when load_fn raises during a batch's dispatch, the future of every
\* task of the batch is completed with the failure; none stays pending.
C10_FailureRejectsAll ==
    \A i \in DOMAIN fetches :
        fetches[i].outcome = "raised" =>
            \A f \in Range(FuturesOf(fetches[i].batch)) : futures[f].state # "PENDING"

\* --------------------------------------------------------------------- C11
\* C11: when load_fn returns m values for a batch of n keys and m # n, the
\* dispatch ends without an error; the first min(n, m) tasks of the batch are
\* resolved, the i-th with the i-th value; with m < n the other n - m tasks
\* stay pending in every later state, with m > n the other values are dropped.
C11_ZipsTheShorter ==
    \A i \in DOMAIN fetches :
        (fetches[i].outcome = "returned" /\ Len(fetches[i].values) # Len(fetches[i].keys)) =>
            LET b == fetches[i].batch
                joined == Joined(b)
                n == Len(fetches[i].keys)
                m == Len(fetches[i].values)
            IN /\ dispatchTask[b] = "done"
               /\ Len(joined) = n
               /\ \A j \in 1..n :
                    IF j <= Min(n, m)
                    THEN /\ futures[joined[j]] = [state |-> "FINISHED", result |-> fetches[i].values[j]]
                         /\ resolutions[joined[j]] = <<b>>
                    ELSE /\ futures[joined[j]] = NewFuture
                         /\ resolutions[joined[j]] = <<>>

\* load_fn returned one value for two keys, and the loop has nothing left to run
C11_Witness ==
    /\ Quiescent
    /\ \E i \in DOMAIN fetches :
          /\ fetches[i].outcome = "returned"
          /\ Len(fetches[i].keys) = 2
          /\ Len(fetches[i].values) = 1
          /\ futures[Joined(fetches[i].batch)[1]].state = "FINISHED"
          /\ futures[Joined(fetches[i].batch)[2]].state = "PENDING"

\* --------------------------------------------------------------------- C12
\* load_fn raised, or returned another number of values than keys, for batch b
FaultyBatch(b) == \E i \in FetchesOf(b) : Faulty(fetches[i])

\* C12: whatever load_fn did for other batches, every batch whose own load_fn
\* call neither raised nor returned a wrong number of values, of the same or
\* of another loader, has exactly one dispatch, which is given the keys of
\* the loads that joined it and resolves each of their futures with its
\* positional value; its dispatch task does not fail, and it has run when the
\* loop has nothing left to run.  No load joins a dispatched batch: a load
\* after a failed dispatch opens a new batch.
C12_FailureIsolation ==
    /\ \A b \in DOMAIN batches : ~FaultyBatch(b) =>
          /\ binfo[b].scheduled = 1
          /\ PendingDispatches(b) + Cardinality(FetchesOf(b)) = 1
          /\ Quiescent => batches[b].dispatched
          /\ dispatchTask[b] # "failed"
          /\ \A i \in FetchesOf(b) :
                /\ fetches[i].keys = KeysGiven(Joined(b))
                /\ fetches[i].outcome = "returned" =>
                      \A j \in DOMAIN Joined(b) :
                          futures[Joined(b)[j]] =
                              [state |-> "FINISHED", result |-> fetches[i].values[j]]
    /\ \A f \in DOMAIN calls :
          /\ ~calls[f].stale
          /\ calls[f].sawDispatched => calls[f].opened

\* load_fn raised for a batch of A; afterwards a batch of B and a later batch
\* of A were dispatched and their futures resolved
C12_Witness ==
    \E i, j, k \in DOMAIN fetches :
        /\ i < j /\ j < k
        /\ fetches[i].outcome = "raised"
        /\ binfo[fetches[i].batch].loader = "A"
        /\ binfo[fetches[j].batch].loader = "B"
        /\ binfo[fetches[k].batch].loader = "A"
        /\ \A x \in {j, k} :
              /\ fetches[x].outcome = "returned"
              /\ \A f \in Range(Joined(fetches[x].batch)) : futures[f].state = "FINISHED"
        /\ \A f \in Range(Joined(fetches[i].batch)) : futures[f].state = "PENDING"

\* --------------------------------------------------------------------- C13
\* each loader's current batch is one it opened itself, no batch is the
\* current batch of two loaders, every task of a batch comes from a load on
\* the loader that opened it, and the keys given to a loader's load_fn are
\* keys loaded on that loader
OwnBatches ==
    /\ \A l \in DOMAIN batch : batch[l] # 0 => binfo[batch[l]].loader = l
    /\ \A l1, l2 \in DOMAIN batch : (l1 # l2 /\ batch[l1] # 0) => batch[l1] # batch[l2]
    /\ \A b \in DOMAIN batches : \A t \in Range(batches[b].tasks) :
          calls[t.future].loader = binfo[b].loader
    /\ \A f \in DOMAIN calls : binfo[calls[f].batch].loader = calls[f].loader
    /\ \A i \in DOMAIN fetches :
          /\ fetches[i].keys = KeysGiven(Joined(fetches[i].batch))
          /\ \A f \in Range(Joined(fetches[i].batch)) :
                calls[f].loader = binfo[fetches[i].batch].loader

\* a step changes the current batch of a loader only when it is a load on
\* that loader, and the tasks of a batch only when it is a load on its loader
OnlyOwnLoads ==
    /\ \A l \in DOMAIN batch : batch'[l] # batch[l] =>
          /\ Len(calls') = Len(calls) + 1
          /\ calls'[Len(calls')].loader = l
    /\ \A b \in DOMAIN batches : batches'[b].tasks # batches[b].tasks =>
          /\ Len(calls') = Len(calls) + 1
          /\ calls'[Len(calls')].loader = binfo[b].loader

\* C13: for two loaders A and B on one loop and any interleaving of their
\* loads and dispatches, a load or dispatch on one never changes the other's
\* current batch nor the tasks of a batch the other opened, no batch is the
\* current batch of both, and the keys loaded on one are never given to the
\* other's load_fn.
C13_InstanceIndependence == []OwnBatches /\ [][OnlyOwnLoads]_vars

\* loads on A, B, A in one unit: load_fn of A was given keys 1 and 3, that of B key 2
C13_Witness ==
    /\ batch["A"] # 0 /\ batch["B"] # 0
    /\ \E i, j \in DOMAIN fetches :
          /\ binfo[fetches[i].batch].loader = "A" /\ fetches[i].keys = <<1, 3>>
          /\ binfo[fetches[j].batch].loader = "B" /\ fetches[j].keys = <<2>>

\* --------------------------------------------------------------------- C14
\* C14: every load call has a task of its own in the batch it joined, also
\* when the batch already holds a task with the same key; load_fn is given
\* one key per load call that joined the batch, in call order, duplicates
\* included; and when it returns as many values the future of the j-th call
\* gets the j-th value, whatever the keys.
C14_NoDeduplication ==
    /\ \A b \in DOMAIN batches :
          /\ FuturesOf(b) = Joined(b)
          /\ KeysOf(batches[b].tasks) = KeysGiven(Joined(b))
    /\ \A i \in DOMAIN fetches :
          /\ Len(fetches[i].keys) = Len(Joined(fetches[i].batch))
          /\ fetches[i].keys = KeysGiven(Joined(fetches[i].batch))
          /\ (fetches[i].outcome = "returned" /\ Len(fetches[i].values) = Len(fetches[i].keys)) =>
                \A j \in DOMAIN fetches[i].keys :
                    futures[Joined(fetches[i].batch)[j]] =
                        [state |-> "FINISHED", result |-> fetches[i].values[j]]

\* two loads of the same key in one batch: load_fn was given the key twice
\* and the two futures got the values of their own slots
C14_Witness ==
    \E i \in DOMAIN fetches :
        /\ fetches[i].keys = <<1, 1>>
        /\ fetches[i].values = <<1, 2>>
        /\ futures[Joined(fetches[i].batch)[1]].result = 1
        /\ futures[Joined(fetches[i].batch)[2]].result = 2

\* --------------------------------------------------------------------- C15
\* the step is a load call
IsLoad == Len(calls') = Len(calls) + 1

\* what a load call leaves behind: load_fn was not called, no dispatched flag
\* changed, the returned future is pending and no other future changed, the
\* loader's current batch got exactly one task, which holds the call's key
\* and future, at its end, and every other batch is as it was
PureEnqueue ==
    LET f == Len(calls')
        l == calls'[f].loader
        b == batch'[l]
    IN /\ fetches' = fetches
       /\ dispatchTask' \in {dispatchTask, Append(dispatchTask, "scheduled")}
       /\ \A x \in DOMAIN batches : batches'[x].dispatched = batches[x].dispatched
       /\ \A x \in DOMAIN batches' : ~batches'[x].dispatched \/ x \in DOMAIN batches
       /\ Len(futures') = f
       /\ futures'[f] = NewFuture
       /\ \A g \in DOMAIN futures : futures'[g] = futures[g]
       /\ calls'[f].batch = b
       /\ batches'[b].tasks =
             Append(IF b \in DOMAIN batches THEN batches[b].tasks ELSE <<>>,
                    LoaderTask(calls'[f].key, f))
       /\ \A x \in DOMAIN batches : x # b => batches'[x] = batches[x]
       /\ DOMAIN batches' = DOMAIN batches \cup {b}

\* C15: a load call never calls load_fn and never marks a batch dispatched,
\* the future it returns is pending when it returns, and it appends exactly
\* one task to exactly one batch, the loader's current batch after the
\* boundary decision (which may have opened it); the tasks of all other
\* batches are unchanged.
C15_LoadOnlyEnqueues == [][IsLoad => PureEnqueue]_vars

\* a load has just opened a batch next to a full, undispatched batch of two
C15_Witness ==
    /\ cur # 0
    /\ \E f \in DOMAIN calls :
          /\ f = Len(calls)
          /\ calls[f].opened
          /\ calls[f].unit = cur
          /\ futures[f] = NewFuture
          /\ BatchLen(batches[calls[f].batch]) = 1
          /\ \E b \in DOMAIN batches :
                b < calls[f].batch /\ BatchLen(batches[b]) = 2 /\ ~batches[b].dispatched

\* --------------------------------------------------------------------- C16
\* every batch keeps the tasks of the loads that joined it, in call order,
\* whatever became of their futures, and load_fn is called at most once for
\* it, once when the loop has nothing left to run, with the keys of all of them
AllKeysFetched ==
    /\ \A b \in DOMAIN batches :
          /\ FuturesOf(b) = Joined(b)
          /\ KeysOf(batches[b].tasks) = KeysGiven(Joined(b))
          /\ Cardinality(FetchesOf(b)) <= 1
          /\ Quiescent => Cardinality(FetchesOf(b)) = 1
    /\ \A i \in DOMAIN fetches : fetches[i].keys = KeysGiven(Joined(fetches[i].batch))

\* no step removes or replaces a task of a batch
TasksOnlyGrow ==
    \A b \in DOMAIN batches : Prefix(batches[b].tasks, batches'[b].tasks)

\* C16: the key of every load call is in the key sequence of the single
\* load_fn call of the batch it joined, at the position of its call order,
\* also when the caller cancelled the returned future before the dispatch
\* ran; no step removes a task from a batch or moves it to another.
C16_NoCancellation == []AllKeysFetched /\ [][TasksOnlyGrow]_vars

\* the first of two futures of a batch was cancelled before load_fn was
\* called, and load_fn was given both keys
C16_Witness ==
    \E i \in DOMAIN fetches :
        /\ Len(fetches[i].keys) = 2
        /\ fetches[i].keys[1] # fetches[i].keys[2]
        /\ Joined(fetches[i].batch)[1] \in fetches[i].cancelled

\* --------------------------------------------------------------------- C17
\* the selections of fragment name in the query
SelectionsOf(name) ==
    LET i == CHOOSE j \in DOMAIN info.fragments : info.fragments[j].name = name
    IN info.fragments[i].selections

\* the labels of a selection set with every spread replaced, at its
\* position, by the fields of its fragment: a field without selections gives
\* its label, a field with selections its label followed by the list of its own
RECURSIVE Expanded(_, _)
Expanded(sels, attr) ==
    IF sels = <<>> THEN <<>>
    ELSE LET node == Head(sels)
             first == IF node.kind = "fragment_spread"
                      THEN Expanded(SelectionsOf(node.name), attr)
                      ELSE IF node.selections = <<>>
                      THEN <<[label |-> Node(node.name)[attr]]>>
                      ELSE <<[label |-> Node(node.name)[attr]],
                             [list |-> Expanded(node.selections, attr)]>>
         IN first \o Expanded(Tail(sels), attr)

\* the document with all fragments expanded: [node, children] per field node
ExpandedDocument(attr) ==
    [i \in DOMAIN info.field_nodes |->
        IF info.field_nodes[i].selections = <<>>
        THEN [label |-> Node(info.field_nodes[i].name)[attr]]
        ELSE [list |-> <<[label |-> Node(info.field_nodes[i].name)[attr]],
                         [list |-> Expanded(info.field_nodes[i].selections, attr)]>>]]

\* C17: once the document is built, document_python_names and
\* document_graphql_names are the query's fields nested as [node, children],
\* the children in selection order with every fragment spread replaced at its
\* position by the fields of the fragment; no selected field is missing,
\* before or after a spread.
C17_FragmentsExpanded ==
    pc = "done" =>
        names = [error |-> "",
                 python_names |-> ExpandedDocument("python_name"),
                 graphql_names |-> ExpandedDocument("graphql_name")]

\* --------------------------------------------------------------------- C18
\* C18: every batch holds at least one task from the end of the load call
\* that created it, so every batch a scheduled dispatch callback refers to
\* holds one, and load_fn is never called with an empty key sequence.
C18_NeverEmptyKeys ==
    /\ \A b \in DOMAIN batches : BatchLen(batches[b]) >= 1
    /\ \A i \in DOMAIN ready :
          ready[i].kind \in {"create_task", "step", "wakeup"} =>
              /\ ready[i].id \in DOMAIN batches
              /\ BatchLen(batches[ready[i].id]) >= 1
    /\ \A i \in DOMAIN fetches : Len(fetches[i].keys) >= 1

\* with max_batch_size 1 the second load opened a batch of its own, and
\* load_fn was called for it with its one key
C18_Witness ==
    \E i \in DOMAIN fetches :
        /\ fetches[i].batch = 2
        /\ maxBatchSize[binfo[2].loader] = 1
        /\ fetches[i].keys = <<2>>

\* --------------------------------------------------------------------- C19
\* C19: when load_fn has returned a value for every key of a batch, every
\* future of the batch that its caller did not cancel has its positional
\* value, also when the caller of another load of the batch cancelled its
\* future before the results were distributed.
C19_CancelLeavesOthers ==
    \A i \in DOMAIN fetches :
        (fetches[i].outcome = "returned" /\ Len(fetches[i].values) = Len(fetches[i].keys)) =>
            \A j \in DOMAIN Joined(fetches[i].batch) :
                futures[Joined(fetches[i].batch)[j]].state # "CANCELLED" =>
                    futures[Joined(fetches[i].batch)[j]] =
                        [state |-> "FINISHED", result |-> fetches[i].values[j]]

\* --------------------------------------------------------------------- C20
\* the parse of a fragment's own selections (fields without selections)
OwnFields(name) == [i \in DOMAIN SelectionsOf(name) |-> Node(SelectionsOf(name)[i].name)]

\* every selection of every field node is a field that only spreads a fragment
OnlySpreads ==
    \A i \in DOMAIN info.field_nodes :
        \A j \in DOMAIN info.field_nodes[i].selections :
            LET node == info.field_nodes[i].selections[j]
            IN /\ node.kind = "field"
               /\ Len(node.selections) = 1
               /\ node.selections[1].kind = "fragment_spread"

\* C20: after the document is built, fragments[name] is still the parse of
\* that fragment's own selections, whatever spreads it and whatever follows
\* the spread; and fields that only spread a fragment get exactly its fields.
C20_FragmentsUnchanged ==
    /\ pc \in {"document", "done"} =>
          \A name \in DOMAIN fragments : heap[fragments[name]] = OwnFields(name)
    /\ (pc = "done" /\ OnlySpreads) =>
          names.python_names = ExpandedDocument("python_name")

====
